---- MODULE Spec2Model ----
(***************************************************************************)
(* rlox: the scanner (mod scanner, src/src/main.rs 98-274) and the REPL    *)
(* loop (mod app, src/src/main.rs 9-47).                                   *)
(*                                                                         *)
(* A source text is a sequence of characters; a character is a one-element *)
(* string, except the two-byte character U+00E9, written "U+00E9".         *)
(* Offsets (start, current) are 0-based as in the code; TLA+ sequences are *)
(* 1-based, so the character chars().nth(k) is source[k + 1].              *)
(***************************************************************************)
EXTENDS Integers, Sequences, FiniteSets, TLC

VARIABLES source, tokens, start, current, line, pc, result, returned,
          stdin, buffer, stdout, rpc

scanVars == <<source, tokens, start, current, line, pc, result, returned>>
replVars == <<stdin, buffer, stdout, rpc>>
vars == <<source, tokens, start, current, line, pc, result, returned,
          stdin, buffer, stdout, rpc>>

(* ------------------------------ bounds --------------------------------- *)
MaxLen == 3      \* longest source text
MaxCalls == 2    \* calls of scan_tokens on one Scanner
MaxStdin == 5    \* characters waiting on standard input
MaxOut == 16     \* characters printed before the REPL stops prompting

(* ----------------------------- characters ------------------------------ *)
Punctuation == {"(", ")", "{", "}", ",", ".", "-", "+", ";", "*"}
Alphabet == {"(", ")", "*", "!", "=", "/", " ", "\n", "@", "U+00E9"}

\* sequences over S of length at most n
SeqUpTo(S, n) == UNION {[1..k -> S] : k \in 0..n}

\* number of bytes of the UTF-8 encoding of a character
Utf8Len(ch) == IF ch = "U+00E9" THEN 2 ELSE 1

RECURSIVE ByteLen(_)
ByteLen(s) == IF s = <<>> THEN 0 ELSE Utf8Len(Head(s)) + ByteLen(Tail(s))

\* str::is_char_boundary: byte offsets at which a character of s starts or s ends
IsCharBoundary(s, b) == \E k \in 0..Len(s) : ByteLen(SubSeq(s, 1, k)) = b

\* &s[from..to], for byte offsets that are character boundaries
ByteSlice(s, from, to) ==
    LET kf == CHOOSE k \in 0..Len(s) : ByteLen(SubSeq(s, 1, k)) = from
        kt == CHOOSE k \in 0..Len(s) : ByteLen(SubSeq(s, 1, k)) = to
    IN SubSeq(s, kf + 1, kt)

(* ------------------------------- tokens -------------------------------- *)
\* the match of scan_token: Some(kind) for the ten punctuation characters, None otherwise
maybe_token_type(ch) ==
    CASE ch = "(" -> "LeftParen"
      [] ch = ")" -> "RightParen"
      [] ch = "{" -> "LeftBrace"
      [] ch = "}" -> "RightBrace"
      [] ch = "," -> "Comma"
      [] ch = "." -> "Dot"
      [] ch = "-" -> "Minus"
      [] ch = "+" -> "Plus"
      [] ch = ";" -> "Semicolon"
      [] ch = "*" -> "Star"
      [] OTHER -> "None"

Token(token_type, lexeme, line_number) ==
    [token_type |-> token_type, lexeme |-> lexeme, line_number |-> line_number]

NoResult == [kind |-> "None", line_number |-> 0]
OkResult == [kind |-> "Ok", line_number |-> 0]
ErrResult(ln) == [kind |-> "Err", line_number |-> ln]

(* ------------------------------ Scanner -------------------------------- *)
\* Scanner::is_at_end
is_at_end(src, cur) == cur >= Len(src)

\* the slice of add_token panics unless both ends are character boundaries;
\* both ends are self.start
add_token_slices(src, st) == IsCharBoundary(src, st)

\* add_token with the line number taken relative to the token's start offset
add_token_dec(toks, token_type, src, st, ln) ==
    Append(toks, Token(token_type, ByteSlice(src, st, st), ln - st))

\* Scanner::add_token: start and current are both read from self.start
add_token(toks, token_type, src, st, ln) ==
    LET from == st
        to == st
    IN Append(toks, Token(token_type, ByteSlice(src, from, to), ln))

\* the error sequence a scan hands back: scan_tokens returns &Vec<Token> alone
\* and drops the Result of every scan_token call, so it is always empty
errors == <<>>

\* the scanner as the specification constructs it; the source has no constructor
StartLine == 1

InitScanner ==
    /\ source \in SeqUpTo(Alphabet, MaxLen)
    /\ tokens = <<>>
    /\ start = 0
    /\ current = 0
    /\ line = StartLine
    /\ pc = "ready"
    /\ result = NoResult
    /\ returned = <<>>

\* a caller calls scan_tokens, on a fresh scanner or on one already used
Call ==
    /\ pc \in {"ready", "returned"}
    /\ Len(returned) < MaxCalls
    /\ pc' = "scanning"
    /\ UNCHANGED <<source, tokens, start, current, line, result, returned>>

\* one iteration of the loop: advance() finds no character at the new offset
AdvancePanics ==
    /\ pc = "scanning"
    /\ ~is_at_end(source, current)
    /\ current + 1 >= Len(source)
    /\ start' = current
    /\ current' = current + 1
    /\ pc' = "panicked"
    /\ UNCHANGED <<source, tokens, line, result, returned>>

\* one iteration of the loop: the character read is punctuation, add_token slices
ScanTokenOk ==
    /\ pc = "scanning"
    /\ ~is_at_end(source, current)
    /\ current + 1 < Len(source)
    /\ maybe_token_type(source[current + 2]) /= "None"
    /\ add_token_slices(source, current)
    /\ start' = current
    /\ current' = current + 1
    /\ tokens' = add_token(tokens, maybe_token_type(source[current + 2]),
                           source, current, line)
    /\ result' = OkResult
    /\ UNCHANGED <<source, line, pc, returned>>

\* one iteration of the loop: the character read is punctuation, the slice panics
AddTokenPanics ==
    /\ pc = "scanning"
    /\ ~is_at_end(source, current)
    /\ current + 1 < Len(source)
    /\ maybe_token_type(source[current + 2]) /= "None"
    /\ ~add_token_slices(source, current)
    /\ start' = current
    /\ current' = current + 1
    /\ pc' = "panicked"
    /\ UNCHANGED <<source, tokens, line, result, returned>>

\* one iteration of the loop: any other character; scan_tokens drops the Err
ScanTokenErr ==
    /\ pc = "scanning"
    /\ ~is_at_end(source, current)
    /\ current + 1 < Len(source)
    /\ maybe_token_type(source[current + 2]) = "None"
    /\ start' = current
    /\ current' = current + 1
    /\ result' = ErrResult(line)
    /\ UNCHANGED <<source, tokens, line, pc, returned>>

\* the loop ends: push Eof and return a reference to self.tokens
ScanTokensReturn ==
    /\ pc = "scanning"
    /\ is_at_end(source, current)
    /\ tokens' = Append(tokens, Token("Eof", <<>>, line))
    /\ returned' = Append(returned, tokens')
    /\ pc' = "returned"
    /\ UNCHANGED <<source, start, current, line, result>>

ReplIdle ==
    /\ stdin = <<>>
    /\ buffer = <<>>
    /\ stdout = <<>>
    /\ rpc = "off"

Init == InitScanner /\ ReplIdle

Next ==
    \/ (Call /\ UNCHANGED replVars)
    \/ (AdvancePanics /\ UNCHANGED replVars)
    \/ (ScanTokenOk /\ UNCHANGED replVars)
    \/ (AddTokenPanics /\ UNCHANGED replVars)
    \/ (ScanTokenErr /\ UNCHANGED replVars)
    \/ (ScanTokensReturn /\ UNCHANGED replVars)

Spec == Init /\ [][Next]_vars

(* -------------------------------- REPL --------------------------------- *)
StdinAlphabet == {"e", "x", "i", "t", "\n"}
Exit == <<"e", "x", "i", "t">>

\* BufRead::read_line: the bytes up to and including the first newline, or all
\* that is left when there is none (nothing at end of input)
LineLen(inp) ==
    IF \E k \in 1..Len(inp) : inp[k] = "\n"
    THEN CHOOSE k \in 1..Len(inp) : inp[k] = "\n" /\ \A j \in 1..(k - 1) : inp[j] /= "\n"
    ELSE Len(inp)

read_line(inp) == SubSeq(inp, 1, LineLen(inp))

\* app::run: prints the characters of data and returns Ok(())
run(out, data) == out \o data

ScannerIdle ==
    /\ source = <<>>
    /\ tokens = <<>>
    /\ start = 0
    /\ current = 0
    /\ line = StartLine
    /\ pc = "off"
    /\ result = NoResult
    /\ returned = <<>>

InitRepl ==
    /\ stdin \in SeqUpTo(StdinAlphabet, MaxStdin)
    /\ buffer = <<>>
    /\ stdout = <<>>
    /\ rpc = "prompt"

\* top of the loop: print the prompt and make an empty buffer
ReplPrompt ==
    /\ rpc = "prompt"
    /\ Len(stdout) < MaxOut
    /\ stdout' = stdout \o <<">", " ">>
    /\ buffer' = <<>>
    /\ rpc' = "read"
    /\ UNCHANGED stdin

\* stdin.read_line(&mut buffer) returns Ok
ReadLineOk ==
    /\ rpc = "read"
    /\ buffer' = buffer \o read_line(stdin)
    /\ stdin' = SubSeq(stdin, LineLen(stdin) + 1, Len(stdin))
    /\ rpc' = "check"
    /\ UNCHANGED stdout

\* stdin.read_line(&mut buffer) returns Err: the ? operator returns it
ReadLineErr ==
    /\ rpc = "read"
    /\ rpc' = "returned_err"
    /\ UNCHANGED <<stdin, buffer, stdout>>

\* if buffer == "exit" { break Ok(()) }
ReplExit ==
    /\ rpc = "check"
    /\ buffer = Exit
    /\ rpc' = "returned_ok"
    /\ UNCHANGED <<stdin, buffer, stdout>>

\* let _result = run(&buffer); and around the loop again
ReplRun ==
    /\ rpc = "check"
    /\ buffer /= Exit
    /\ stdout' = run(stdout, buffer)
    /\ rpc' = "prompt"
    /\ UNCHANGED <<stdin, buffer>>

ReplInit == ScannerIdle /\ InitRepl

ReplNext ==
    \/ (ReplPrompt /\ UNCHANGED scanVars)
    \/ (ReadLineOk /\ UNCHANGED scanVars)
    \/ (ReadLineErr /\ UNCHANGED scanVars)
    \/ (ReplExit /\ UNCHANGED scanVars)
    \/ (ReplRun /\ UNCHANGED scanVars)

ReplSpec == ReplInit /\ [][ReplNext]_vars

(* ------------------------------ properties ----------------------------- *)
Last(s) == s[Len(s)]

RECURSIVE Count(_, _)
Count(s, ch) == IF s = <<>> THEN 0
                ELSE (IF Head(s) = ch THEN 1 ELSE 0) + Count(Tail(s), ch)

EofCount(toks) == Cardinality({i \in 1..Len(toks) : toks[i].token_type = "Eof"})

\* the character the last completed scan_token call classified
Classified == source[current + 1]

\* C1: for every source text the scan never aborts, and the token sequence it
\* returns ends with the Eof token, whose lexeme is empty.
ScanTerminatesWithEof ==
    /\ pc /= "panicked"
    /\ pc = "returned" =>
          /\ Len(tokens) > 0
          /\ Last(tokens).token_type = "Eof"
          /\ Last(tokens).lexeme = <<>>

\* the character classes of the language
Whitespace == {" ", "\t", "\r", "\n"}
Operators == {"!", "=", "<", ">"}

\* the characters of Alphabet that start no token of the language
StartsNoToken == {"@", "U+00E9"}

\* C2: a character that starts no token is recorded as a LexError carrying the
\* line it occurs on and emits no token: once scan_token has classified such a
\* character, the error sequence holds an entry with the line of the error.
UnexpectedCharacterRecorded ==
    (pc = "scanning" /\ result.kind /= "None" /\ Classified \in StartsNoToken) =>
        /\ result.kind = "Err"
        /\ \E i \in 1..Len(errors) : errors[i].line_number = result.line_number

\* C3: the lexeme of a token emitted by add_token is the source text from start
\* up to current at the moment of emission, and only the Eof token has the
\* empty lexeme.
LexemeIsSourceSlice ==
    /\ (pc = "scanning" /\ result.kind = "Ok") =>
          Last(tokens).lexeme = SubSeq(source, start + 1, current)
    /\ \A i \in 1..Len(tokens) :
          tokens[i].lexeme = <<>> => tokens[i].token_type = "Eof"

\* C4: the line counter is 1 plus the number of newline characters consumed so
\* far, and every token carries the line counter's value of that kind: 1 plus
\* the newlines before the cursor.
LineCountsNewlines ==
    pc \in {"scanning", "returned"} =>
        line = 1 + Count(SubSeq(source, 1, current), "\n")

\* C5: in every reachable state the line numbers of the tokens accumulated so
\* far are non-decreasing in sequence order, the Eof tokens included.
TokenLinesNonDecreasing ==
    \A i \in 1..(Len(tokens) - 1) :
        tokens[i].line_number <= tokens[i + 1].line_number

\* C5 witness: add_token has pushed at least two tokens.
TwoTokensPushed ==
    /\ Len(tokens) >= 2
    /\ tokens[1].token_type /= "Eof"
    /\ tokens[2].token_type /= "Eof"

TwoCharacter(ch) ==
    CASE ch = "!" -> "BangEqual"
      [] ch = "=" -> "EqualEqual"
      [] ch = "<" -> "LessEqual"
      [] ch = ">" -> "GreaterEqual"

OneCharacter(ch) ==
    CASE ch = "!" -> "Bang"
      [] ch = "=" -> "Equal"
      [] ch = "<" -> "Less"
      [] ch = ">" -> "Greater"

\* C6: a loop iteration that completes and whose token starts with one of
\* ! = < > pushes the two-character token and consumes both characters when =
\* follows, and pushes the one-character token and consumes one character
\* otherwise.
MaximalMunch ==
    [][(pc = "scanning" /\ pc' = "scanning" /\ current' /= current
            /\ source[start' + 1] \in Operators) =>
        /\ Len(tokens') = Len(tokens) + 1
        /\ IF start' + 2 <= Len(source) /\ source[start' + 2] = "="
           THEN /\ Last(tokens').token_type = TwoCharacter(source[start' + 1])
                /\ current' = start' + 2
           ELSE /\ Last(tokens').token_type = OneCharacter(source[start' + 1])
                /\ current' = start' + 1]_vars

\* C7: every call of the scan on the same scanner returns the same token
\* sequence as the first, and the Eof token is appended exactly once.
ScanIsIdempotent ==
    /\ \A i, j \in 1..Len(returned) : returned[i] = returned[j]
    /\ EofCount(tokens) <= 1

\* C8: a whitespace character, or a / that opens a // comment, produces neither
\* a token nor a LexError.
WhitespaceIsSilent ==
    (pc = "scanning" /\ result.kind \in {"Ok", "Err"}) =>
        /\ Classified \notin Whitespace
        /\ ~(Classified = "/" /\ current + 2 <= Len(source)
                /\ source[current + 2] = "/")

\* C9: on a source of punctuation characters only, the i-th token pushed has the
\* kind of the i-th character of the source, and the returned sequence is those
\* n tokens followed by Eof.
PunctuationTokensInOrder ==
    (\A k \in 1..Len(source) : source[k] \in Punctuation) =>
        /\ \A i \in 1..Len(tokens) :
              tokens[i].token_type /= "Eof" =>
                  (i <= Len(source)
                     /\ tokens[i].token_type = maybe_token_type(source[i]))
        /\ pc = "returned" => Len(returned[1]) = Len(source) + 1

\* the line the user entered: the buffer without its line terminator
EnteredLine(buf) ==
    IF buf /= <<>> /\ Last(buf) = "\n" THEN SubSeq(buf, 1, Len(buf) - 1) ELSE buf

\* C10: once read_line has read the line exit, run_repl returns Ok(()) without
\* running it; after any other line the loop goes on to the next prompt.
ExitLineStopsRepl ==
    [][rpc = "check" =>
        IF EnteredLine(buffer) = Exit
        THEN rpc' = "returned_ok" /\ stdout' = stdout
        ELSE rpc' = "prompt"]_vars

====
